---- MODULE Spec2Model ----
(***************************************************************************)
(* drone_flightplan/sampleRasterAtPoints.py: sampling a DEM raster at      *)
(* points, through either sampleRasterFromPointsList (library entry) or    *)
(* the command line (rasterValuesAtPoints, then gridWithElevation2csv).    *)
(*                                                                         *)
(* Real numbers are exact rationals.  A coordinate is an integer count of  *)
(* 1/Scale map units; a fractional pixel coordinate is a numerator over a  *)
(* common denominator; a decoded float is [num, den].  Floating-point      *)
(* rounding is not modelled.  GDAL/OGR/OSR, struct and csv are modelled by *)
(* the behaviour of the calls the source makes.                            *)
(***************************************************************************)
EXTENDS Integers, Sequences, FiniteSets, TLC

VARIABLES
    entry,          \* which entry point runs: "list" or "main"
    raster_file,    \* the DEM the raster_file argument names
    point_file,     \* main: state of the vector file ("ok", "noCRS", "missing")
    features,       \* the input points, each <<index, x, y>>
    transform,      \* behaviour of the osr.CoordinateTransformation built
    gdalExceptions, \* whether the GDAL bindings raise (else they return None)
    pc,             \* position in the program
    reverse,        \* inverse geotransform
    pointSR,        \* spatial reference of the points
    i,              \* position of the for loop in features
    points,         \* rows built so far
    calls,          \* arguments handed to ApplyGeoTransform and ReadRaster
    result,         \* <<>> until the sampling function returns, then <<rows>>
    err,            \* <<>> or <<exception type, source line>>
    outfile         \* lines of the file the outfile argument names

vars == <<entry, raster_file, point_file, features, transform, gdalExceptions,
          pc, reverse, pointSR, i, points, calls, result, err, outfile>>

inputs == <<entry, raster_file, point_file, features, transform, gdalExceptions>>

---------------------------------------------------------------------------
(* Bounds *)

MaxPoints == 3      \* longest input point list
Scale == 2          \* coordinates are counted in 1/Scale map units

---------------------------------------------------------------------------
(* Numbers *)

\* math.floor of num/den, truncating toward zero instead
FloorTowardZero(num, den) ==
    LET n == IF den > 0 THEN num ELSE -num
        d == IF den > 0 THEN den ELSE -den
    IN IF n >= 0 THEN n \div d ELSE -((-n) \div d)

\* math.floor of the rational num/den (den # 0)
Floor(num, den) ==
    LET n == IF den > 0 THEN num ELSE -num
        d == IF den > 0 THEN den ELSE -den
    IN n \div d

RECURSIVE Pow2(_)
Pow2(k) == IF k = 0 THEN 1 ELSE 2 * Pow2(k - 1)

---------------------------------------------------------------------------
(* The raster library *)

\* the two's complement little-endian bytes of a 16-bit value stored in a DEM
StoredInt16(v) ==
    LET u == IF v < 0 THEN v + 65536 ELSE v
    IN <<u % 256, u \div 256>>

\* The DEMs sampled.  gt is the forward geotransform (gt[1..6] are GDAL's
\* coefficients 0..5), in whole map units.
Dem4 ==
    [name |-> "dem4", readable |-> TRUE, xsize |-> 4, ysize |-> 4,
     dtype |-> "Int16", gt |-> <<0, 1, 0, 0, 0, -1>>]
Id256 ==
    [name |-> "id256", readable |-> TRUE, xsize |-> 256, ysize |-> 256,
     dtype |-> "UInt16", gt |-> <<0, 1, 0, 0, 0, 1>>]
Flt4 ==
    [name |-> "flt4", readable |-> TRUE, xsize |-> 4, ysize |-> 4,
     dtype |-> "Float32", gt |-> <<-2, 2, 0, 4, 0, -2>>]
Unreadable ==
    [name |-> "missing", readable |-> FALSE, xsize |-> 0, ysize |-> 0,
     dtype |-> "Int16", gt |-> <<0, 1, 0, 0, 0, 1>>]

Rasters == {Dem4, Id256, Flt4, Unreadable}

\* the bytes band 1 stores at pixel (col, row), inside the extent
BandBytes(ras, col, row) ==
    CASE ras.name = "dem4" -> StoredInt16(50 * col + 250 * row - 400 * (col \div 3))
      [] ras.name = "id256" -> <<col, row>>
      [] ras.name = "flt4" ->
            <<0, 0, <<0, 128, 175, 32>>[col + 1], <<63, 67, 191, 64>>[row + 1]>>

InExtent(ras, col, row) ==
    /\ 0 <= col /\ col < ras.xsize
    /\ 0 <= row /\ row < ras.ysize

\* band.ReadRaster(col, row, 1, 1) with the window clamped into the extent
ReadRasterClamped(ras, col, row) ==
    LET c == IF col < 0 THEN 0 ELSE IF col >= ras.xsize THEN ras.xsize - 1 ELSE col
        r == IF row < 0 THEN 0 ELSE IF row >= ras.ysize THEN ras.ysize - 1 ELSE row
    IN BandBytes(ras, c, r)

\* band.ReadRaster(col, row, 1, 1): the pixel's bytes in the band's data
\* type, or <<>> (no buffer) when the window is outside the raster
ReadRaster(ras, col, row) ==
    IF InExtent(ras, col, row) THEN BandBytes(ras, col, row) ELSE <<>>

\* gdal.InvGeoTransform: the inverse's six coefficients are c[k] / det
InvGeoTransform(gt) ==
    [det |-> gt[2] * gt[6] - gt[3] * gt[5],
     c |-> << gt[3] * gt[4] - gt[1] * gt[6],  gt[6], -gt[3],
              gt[1] * gt[5] - gt[2] * gt[4], -gt[5],  gt[2] >>]

\* gdal.ApplyGeoTransform(rev, mapX, mapY): the fractional pixel coordinates
\* numX/den and numY/den
ApplyGeoTransform(rev, mapX, mapY) ==
    [numX |-> rev.c[1] * Scale + rev.c[2] * mapX + rev.c[3] * mapY,
     numY |-> rev.c[4] * Scale + rev.c[5] * mapX + rev.c[6] * mapY,
     den  |-> rev.det * Scale]

\* The coordinate transformations: the target reference's first axis is
\* northing/latitude (latFirst) or easting; dx, dy shift the coordinates.
Unchanged == [latFirst |-> FALSE, dx |-> 0, dy |-> 0]
Transforms ==
    {Unchanged,
     [latFirst |-> TRUE, dx |-> 0, dy |-> 0],
     [latFirst |-> TRUE, dx |-> 2, dy |-> -1]}

\* transform.TransformPoint(x, y): the point in the target reference, in the
\* target's axis order
TransformPoint(t, x, y) ==
    IF t.latFirst THEN <<y + t.dy, x + t.dx>> ELSE <<x + t.dx, y + t.dy>>

---------------------------------------------------------------------------
(* struct.unpack and the row formats *)

\* struct.unpack(">h", b)[0]: the two bytes read big-endian
UnpackInt16BE(b) ==
    LET u == b[2] + 256 * b[1]
    IN IF u >= 32768 THEN u - 65536 ELSE u

\* struct.unpack("<h", b)[0]: little-endian signed 16-bit integer
UnpackInt16LE(b) ==
    LET u == b[1] + 256 * b[2]
    IN IF u >= 32768 THEN u - 65536 ELSE u

\* struct.unpack("f", b)[0]: IEEE 754 binary32 in the machine's byte order
\* (the order ReadRaster delivers), as the rational num/den.  Zero and the
\* normal numbers up to 2^24 are covered; the DEMs above store no others.
UnpackFloat32(b) ==
    LET sign == b[4] \div 128
        exp  == (b[4] % 128) * 2 + b[3] \div 128
        mant == (b[3] % 128) * 65536 + b[2] * 256 + b[1]
        mag  == 8388608 + mant
    IN IF exp = 0 /\ mant = 0 THEN [num |-> 0, den |-> 1]
       ELSE [num |-> IF sign = 1 THEN -mag ELSE mag, den |-> Pow2(150 - exp)]

\* lines 51-52 and 104-105 without the exchange: mapX first, mapY second
MapXYInOrder(pointXYRasterCRS) ==
    <<pointXYRasterCRS[1], pointXYRasterCRS[2]>>

\* lines 51-52 and 104-105: mapX is the second coordinate TransformPoint
\* returned, mapY the first.  The result is <<mapX, mapY>>.
MapXY(pointXYRasterCRS) ==
    <<pointXYRasterCRS[2], pointXYRasterCRS[1]>>

\* one step of either loop up to the raster read: what the point (x, y)
\* hands to ApplyGeoTransform and ReadRaster, and what ReadRaster returns
Lookup(x, y) ==
    LET m         == MapXY(TransformPoint(transform, x, y))
        pixcoords == ApplyGeoTransform(reverse, m[1], m[2])
        pixX      == Floor(pixcoords.numX, pixcoords.den)
        pixY      == Floor(pixcoords.numY, pixcoords.den)
    IN [mapX |-> m[1], mapY |-> m[2], pixcoords |-> pixcoords,
        pixX |-> pixX, pixY |-> pixY,
        elevationstruct |-> ReadRaster(raster_file, pixX, pixY)]

\* the row sampleRasterFromPointsList would append with the reprojected
\* coordinates in place of the input's
ListRowReprojected(feature, look, elevation) ==
    <<feature[1], look.mapX, look.mapY, elevation>>

\* the row sampleRasterFromPointsList appends
ListRow(feature, look, elevation) ==
    <<feature[1], feature[2], feature[3], elevation>>

\* the row rasterValuesAtPoints appends
VecRow(feature, look, elevation) ==
    <<look.mapX, look.mapY, elevation>>

---------------------------------------------------------------------------
(* csv *)

\* str() of a field, as csv.writer writes it
Str(v) == [text |-> v]

\* one written line: the row's fields as text, in order
FormatRow(row) == [k \in 1..Len(row) |-> Str(row[k])]

Header == <<Str("x"), Str("y"), Str("elevation")>>

\* what the destination holds before the run
OldContent == << <<Str("stale")>> >>

\* the lines of a completed write, with the rows appended to the old content
CsvLinesAppended(grid) ==
    OldContent \o <<Header>> \o [k \in 1..Len(grid) |-> FormatRow(grid[k])]

\* the lines of a completed write: writerow(header), then writerows(grid)
CsvLines(grid) ==
    <<Header>> \o [k \in 1..Len(grid) |-> FormatRow(grid[k])]

---------------------------------------------------------------------------
(* Inputs *)

Points ==
    {<<10, 5, -3>>, <<11, -3, 5>>, <<12, 200, 400>>, <<13, -1, 3>>, <<14, 3, 3>>}

PointLists == UNION {[1..n -> Points] : n \in 0..MaxPoints}

Init ==
    /\ entry \in {"list", "main"}
    /\ raster_file \in Rasters
    /\ point_file \in IF entry = "main" THEN {"ok", "noCRS", "missing"} ELSE {"unused"}
    /\ features \in PointLists
    /\ transform \in Transforms
    /\ gdalExceptions \in BOOLEAN
    /\ pc = "start"
    /\ reverse = [det |-> 0, c |-> <<0, 0, 0, 0, 0, 0>>]
    /\ pointSR = "unset"
    /\ i = 1
    /\ points = <<>>
    /\ calls = <<>>
    /\ result = <<>>
    /\ err = <<>>
    /\ outfile = OldContent

\* an uncaught exception leaves the program
Raise(type, line) ==
    /\ pc' = "failed"
    /\ err' = <<type, line>>

---------------------------------------------------------------------------
(* sampleRasterFromPointsList *)

\* lines 26-47: open the raster, invert its geotransform, build the
\* transformation from EPSG:3857
ListLoad ==
    /\ entry = "list" /\ pc = "start"
    /\ IF ~raster_file.readable
       THEN /\ IF gdalExceptions THEN Raise("RuntimeError", 26)
                                 ELSE Raise("AttributeError", 28)
            /\ UNCHANGED <<reverse, pointSR>>
       ELSE /\ reverse' = InvGeoTransform(raster_file.gt)
            /\ pointSR' = "EPSG:3857"
            /\ pc' = "loop"
            /\ err' = err
    /\ UNCHANGED <<inputs, i, points, calls, result, outfile>>

\* lines 49-66: one iteration of the loop
ListSample ==
    /\ entry = "list" /\ pc = "loop" /\ i <= Len(features)
    /\ LET feature == features[i]
           look    == Lookup(feature[2], feature[3])
           raw     == look.elevationstruct
       IN /\ calls' = Append(calls, [mapX |-> look.mapX, mapY |-> look.mapY,
                                     pixX |-> look.pixX, pixY |-> look.pixY])
          /\ IF raw = <<>>
             THEN /\ IF gdalExceptions THEN Raise("RuntimeError", 56)
                                       ELSE Raise("TypeError", 61)
                  /\ UNCHANGED <<i, points>>
             ELSE IF Len(raw) # 2
             THEN /\ Raise("struct.error", 61)
                  /\ UNCHANGED <<i, points>>
             ELSE /\ points' = Append(points, ListRow(feature, look, UnpackInt16LE(raw)))
                  /\ i' = i + 1
                  /\ UNCHANGED <<pc, err>>
    /\ UNCHANGED <<inputs, reverse, pointSR, result, outfile>>

\* line 67
ListReturn ==
    /\ entry = "list" /\ pc = "loop" /\ i > Len(features)
    /\ result' = <<points>>
    /\ pc' = "returned"
    /\ UNCHANGED <<inputs, reverse, pointSR, i, points, calls, err, outfile>>

---------------------------------------------------------------------------
(* rasterValuesAtPoints *)

\* lines 77-90: open the raster and invert its geotransform
VecLoadRaster ==
    /\ entry = "main" /\ pc = "start"
    /\ IF ~raster_file.readable
       THEN /\ IF gdalExceptions THEN Raise("RuntimeError", 77)
                                 ELSE Raise("AttributeError", 80)
            /\ UNCHANGED reverse
       ELSE /\ reverse' = InvGeoTransform(raster_file.gt)
            /\ pc' = "raster"
            /\ err' = err
    /\ UNCHANGED <<inputs, pointSR, i, points, calls, result, outfile>>

\* pointSR.GetName (line 96) on a layer whose GetSpatialRef() is tolerated
GetNameTolerant(sr) == FALSE

\* pointSR.GetName (line 96) raises AttributeError: GetSpatialRef() returned
\* None, which has no attribute GetName
GetNameRaises(sr) == sr = "None"

\* lines 92-100: open the point file, take its layer's spatial reference,
\* build the transformation
VecLoadPoints ==
    /\ entry = "main" /\ pc = "raster"
    /\ IF point_file = "missing"
       THEN /\ IF gdalExceptions THEN Raise("RuntimeError", 92)
                                 ELSE Raise("AttributeError", 93)
            /\ UNCHANGED pointSR
       ELSE LET sr == IF point_file = "noCRS" THEN "None" ELSE "layer"
            IN /\ pointSR' = sr
               /\ IF GetNameRaises(sr)
                  THEN Raise("AttributeError", 96)
                  ELSE /\ pc' = "loop"
                       /\ err' = err
    /\ UNCHANGED <<inputs, reverse, i, points, calls, result, outfile>>

\* lines 101-121: one iteration of the loop
VecSample ==
    /\ entry = "main" /\ pc = "loop" /\ i <= Len(features)
    /\ LET feature == features[i]
           look    == Lookup(feature[2], feature[3])
           raw     == look.elevationstruct
       IN /\ calls' = Append(calls, [mapX |-> look.mapX, mapY |-> look.mapY,
                                     pixX |-> look.pixX, pixY |-> look.pixY])
          /\ IF raw = <<>>
             THEN /\ IF gdalExceptions THEN Raise("RuntimeError", 109)
                                       ELSE Raise("TypeError", 110)
                  /\ UNCHANGED <<i, points>>
             ELSE IF Len(raw) # 4
             THEN /\ Raise("struct.error", 110)
                  /\ UNCHANGED <<i, points>>
             ELSE /\ points' = Append(points, VecRow(feature, look, UnpackFloat32(raw)))
                  /\ i' = i + 1
                  /\ UNCHANGED <<pc, err>>
    /\ UNCHANGED <<inputs, reverse, pointSR, result, outfile>>

\* line 122
VecReturn ==
    /\ entry = "main" /\ pc = "loop" /\ i > Len(features)
    /\ result' = <<points>>
    /\ pc' = "returned"
    /\ UNCHANGED <<inputs, reverse, pointSR, i, points, calls, err, outfile>>

---------------------------------------------------------------------------
(* gridWithElevation2csv *)

\* the writer reachable from the start of the program as well
SinkReachedEarly == pc \in {"start", "returned"}

\* lines 142-143: gridWithElevation2csv is called with the grid the sampling
\* function returned
SinkReached == pc = "returned"

\* lines 127-130.  open(outfile, "w") fails and leaves the file alone, or
\* truncates it; then the header and the rows are written, all of them
\* unless a write fails after `flushed` lines.
gridWithElevation2csv ==
    /\ SinkReached
    /\ LET grid == IF result = <<>> THEN <<>> ELSE result[1]
           all  == CsvLines(grid)
       IN \E io \in {"ok", "open fails", "write fails"} :
            IF io = "open fails"
            THEN /\ Raise("OSError", 127)
                 /\ UNCHANGED outfile
            ELSE IF io = "write fails"
            THEN /\ Raise("OSError", 130)
                 /\ \E flushed \in 0..(Len(all) - 1) :
                        outfile' = SubSeq(all, 1, flushed)
            ELSE /\ outfile' = all
                 /\ pc' = "done"
                 /\ err' = err
    /\ UNCHANGED <<inputs, reverse, pointSR, i, points, calls, result>>

---------------------------------------------------------------------------

Next ==
    \/ ListLoad
    \/ ListSample
    \/ ListReturn
    \/ VecLoadRaster
    \/ VecLoadPoints
    \/ VecSample
    \/ VecReturn
    \/ gridWithElevation2csv

Spec == Init /\ [][Next]_vars

---------------------------------------------------------------------------
(* Properties *)

\* the rows the sampling function returned
Returned == result[1]

\* what TransformPoint returns for the k-th input point
Reprojected(k) == TransformPoint(transform, features[k][2], features[k][3])

\* the k-th call's fractional pixel coordinates
PixCoords(k) == ApplyGeoTransform(reverse, calls[k].mapX, calls[k].mapY)

\* i <= num/den < i + 1
IsFloorOf(idx, num, den) ==
    IF den > 0
    THEN idx * den <= num /\ num < (idx + 1) * den
    ELSE idx * den >= num /\ num > (idx + 1) * den

\* the bytes band 1 stores at the pixel the k-th call read
RawAt(k) == BandBytes(raster_file, calls[k].pixX, calls[k].pixY)

\* b0 + 256*b1, minus 65536 when that is >= 32768
SignedLE16(b) ==
    IF b[1] + 256 * b[2] >= 32768 THEN b[1] + 256 * b[2] - 65536
                                  ELSE b[1] + 256 * b[2]

\* C1: when sampleRasterFromPointsList returns, the result has one row per
\* input point, in input order, and row k is the k-th point's index, x and y
\* as given, followed by the elevation sampled for it.
C1_OneRowPerPointInOrder ==
    (entry = "list" /\ result # <<>>) =>
        /\ Len(Returned) = Len(features)
        /\ \A k \in 1..Len(features) :
              /\ Len(Returned[k]) = 4
              /\ Returned[k][1] = features[k][1]
              /\ Returned[k][2] = features[k][2]
              /\ Returned[k][3] = features[k][3]
              /\ Returned[k][4] = SignedLE16(RawAt(k))

\* C1 witness: two different points sampled and returned, their coordinates
\* not those handed to the inverse geotransform
C1_Witness ==
    /\ entry = "list" /\ result # <<>>
    /\ Len(Returned) = 2
    /\ Returned[1] # Returned[2]
    /\ Returned[1][2] # calls[1].mapX

\* C2 (as claimed): with forward geotransform [0,1,0,0,0,1] and a
\* reprojection that returns the coordinates unchanged, a point (x, y) reads
\* pixel (floor(x), floor(y)).
C2_IdentitySelectsFloorXY ==
    (raster_file.gt = <<0, 1, 0, 0, 0, 1>> /\ transform = Unchanged) =>
        \A k \in 1..Len(calls) :
            /\ IsFloorOf(calls[k].pixX, features[k][2], Scale)
            /\ IsFloorOf(calls[k].pixY, features[k][3], Scale)

\* C3 (as claimed): on the 4x4 raster with forward geotransform
\* [0,1,0,0,0,-1] and no reprojection change, sampleRasterFromPointsList
\* reads pixel (floor(x), floor(-y)) for a point (x, y), and the point
\* (2.5, -1.5) gets elevation 350.
C3_NorthUpSelectsFloorXNegY ==
    (entry = "list" /\ raster_file = Dem4 /\ transform = Unchanged) =>
        \A k \in 1..Len(calls) :
            /\ IsFloorOf(calls[k].pixX, features[k][2], Scale)
            /\ IsFloorOf(calls[k].pixY, -features[k][3], Scale)
            /\ (2 * features[k][2] = 5 * Scale /\ 2 * features[k][3] = -3 * Scale) =>
                  /\ Len(points) >= k
                  /\ points[k][4] = 350

\* C4: in both paths every pixel index handed to ReadRaster is the floor of
\* its fractional pixel coordinate, i <= c < i + 1, inside the raster or not.
C4_FloorTowardNegativeInfinity ==
    \A k \in 1..Len(calls) :
        /\ IsFloorOf(calls[k].pixX, PixCoords(k).numX, PixCoords(k).den)
        /\ IsFloorOf(calls[k].pixY, PixCoords(k).numY, PixCoords(k).den)

\* C4 witness: a fractional pixel coordinate of -0.5 read at index -1
C4_Witness ==
    \E k \in 1..Len(calls) :
        /\ 2 * PixCoords(k).numX = -PixCoords(k).den
        /\ calls[k].pixX = -1

\* C5: whatever the band's data type, every row of sampleRasterFromPointsList
\* holds the pixel's bytes read as a signed little-endian 16-bit integer, and
\* every row of rasterValuesAtPoints holds them read as an IEEE 32-bit float.
C5_DecoderByCallPath ==
    /\ entry = "list" =>
          \A k \in 1..Len(points) : points[k][4] = SignedLE16(RawAt(k))
    /\ entry = "main" =>
          \A k \in 1..Len(points) :
              LET b    == RawAt(k)
                  v    == points[k][3]
                  exp  == (b[4] % 128) * 2 + b[3] \div 128
                  frac == (b[3] % 128) * 65536 + b[2] * 256 + b[1]
              IN /\ Len(b) = 4
                 /\ v.den = Pow2(150 - exp)
                 /\ v.num = IF b[4] >= 128 THEN -(8388608 + frac) ELSE 8388608 + frac
                 /\ b = <<0, 0, 128, 63>> => v.num = v.den
                 /\ b = <<0, 0, 175, 67>> => v.num = 350 * v.den

\* C5 witness: a band declared UInt16 whose pixel sampleRasterFromPointsList
\* returned as a negative number
C5_Witness ==
    /\ entry = "list"
    /\ raster_file.dtype = "UInt16"
    /\ \E k \in 1..Len(points) : points[k][4] < 0

\* C6: a point whose pixel index is outside the raster ends the run at that
\* point: the read fails, no row is built for it, nothing is returned, and
\* no later point is looked up.
C6_OutOfExtentAborts ==
    \A k \in 1..Len(calls) :
        ~InExtent(raster_file, calls[k].pixX, calls[k].pixY) =>
            /\ pc = "failed"
            /\ err[2] \in {56, 61, 109, 110}
            /\ k = Len(calls)
            /\ i = k
            /\ Len(points) = k - 1
            /\ result = <<>>
            /\ outfile = OldContent

\* C6 witness: the second of three points is outside the raster, after the
\* first one's row was built
C6_Witness ==
    /\ pc = "failed"
    /\ Len(features) = 3
    /\ Len(calls) = 2
    /\ Len(points) = 1
    /\ ~InExtent(raster_file, calls[2].pixX, calls[2].pixY)

\* C7 (as claimed): with a layer that declares no spatial reference,
\* rasterValuesAtPoints fails with MissingCRSError before any point is
\* transformed or any pixel read.
C7_FailsWithMissingCRSError ==
    (entry = "main" /\ point_file = "noCRS" /\ pointSR # "unset") =>
        /\ pc = "failed"
        /\ err[1] = "MissingCRSError"
        /\ calls = <<>>

\* C7 (amended): with a layer that declares no spatial reference,
\* rasterValuesAtPoints fails with the AttributeError of line 96 before any
\* point is transformed or any pixel read.
C7_FailsWithAttributeError ==
    (entry = "main" /\ point_file = "noCRS" /\ pointSR # "unset") =>
        /\ pc = "failed"
        /\ err = <<"AttributeError", 96>>
        /\ calls = <<>>
        /\ points = <<>>
        /\ result = <<>>

\* C7 witness: the run has failed on a layer without spatial reference that
\* holds points
C7_Witness ==
    /\ entry = "main" /\ point_file = "noCRS"
    /\ pointSR = "None"
    /\ pc = "failed"
    /\ Len(features) > 0

\* C8: a completed gridWithElevation2csv leaves N + 1 lines: the header
\* x,y,elevation, then one line per row in input order with the row's fields
\* in order; nothing of the previous content remains.
C8_CsvHeaderThenRows ==
    pc = "done" =>
        /\ Len(outfile) = Len(Returned) + 1
        /\ outfile[1] = <<[text |-> "x"], [text |-> "y"], [text |-> "elevation"]>>
        /\ \A k \in 1..Len(Returned) :
              /\ Len(outfile[k + 1]) = Len(Returned[k])
              /\ \A j \in 1..Len(Returned[k]) :
                    outfile[k + 1][j] = [text |-> Returned[k][j]]

\* C8 witness: two different rows written
C8_Witness ==
    /\ pc = "done"
    /\ Len(Returned) = 2
    /\ Returned[1] # Returned[2]

\* C9: in a command-line run the destination keeps its previous content
\* until every point has been sampled and the grid returned; a run that
\* fails before the writer leaves it as it was.
C9_SinkAfterSampling ==
    entry = "main" =>
        /\ outfile # OldContent =>
              /\ result # <<>>
              /\ Len(Returned) = Len(features)
              /\ Len(calls) = Len(features)
              /\ pc \in {"done", "failed"}
              /\ pc = "failed" => err[2] \in {127, 130}
        /\ (pc = "failed" /\ err[2] < 127) => (outfile = OldContent /\ result = <<>>)

\* C9 witness: sampling failed after a first row was built, and the
\* destination is untouched
C9_Witness ==
    /\ entry = "main"
    /\ pc = "failed"
    /\ err[2] \in {109, 110}
    /\ Len(points) >= 1
    /\ outfile = OldContent

\* C10: in both paths the pair handed to the inverse geotransform is
\* TransformPoint's output exchanged (mapX the second coordinate, mapY the
\* first), whatever the axis order; rasterValuesAtPoints' rows begin with
\* that pair.
C10_SwappedPair ==
    /\ \A k \in 1..Len(calls) :
          /\ calls[k].mapX = Reprojected(k)[2]
          /\ calls[k].mapY = Reprojected(k)[1]
    /\ entry = "main" =>
          \A k \in 1..Len(points) :
              /\ points[k][1] = Reprojected(k)[2]
              /\ points[k][2] = Reprojected(k)[1]

\* C10 witness: a row of rasterValuesAtPoints whose first field is the
\* input's y, under a transformation that returns (x, y) unchanged
C10_Witness ==
    /\ entry = "main"
    /\ transform = Unchanged
    /\ Len(points) >= 1
    /\ features[1][2] # features[1][3]
    /\ points[1][1] = features[1][3]

====
